---- MODULE Spec2Model ----
(***************************************************************************)
(* Article hero-image pipeline: src/main.py (image-CDN variant) and        *)
(* src/api/index.py (object-storage variant).                              *)
(*                                                                         *)
(* Strings that the code inspects character by character (URLs, HTML       *)
(* attribute values) are sequences of one-character strings.  Python's     *)
(* None is the empty option <<>>, a present value v is <<v>>.              *)
(***************************************************************************)
EXTENDS Integers, Sequences, FiniteSets, TLC

(***************************************************************************)
(* Bounds of the model.                                                    *)
(***************************************************************************)
MaxArticles == 2
MaxImages == 2
MaxNodes == 3

(***************************************************************************)
(* Program constants.                                                      *)
(***************************************************************************)
MIN_WIDTH == 600
MIN_HEIGHT == 300
\* MIN_RATIO = 0.8 and MAX_RATIO = 2.2, as fractions of RatioDen
RatioDen == 10
MinRatioNum == 8
MaxRatioNum == 22
MAX_FILE_SIZE_KB == 800
BytesPerKB == 1024
StartQuality == 85
FloorQuality == 60
QualityStep == 5
CdnQuality == 90
S3_FOLDER_ARTICLE == "xtbscrapimg"
S3_FOLDER_GEMINI == "xtbgemimg"
CDN_FOLDER == "article-images"
UrlRegionLiteral == "us-east-1"

(***************************************************************************)
(* Character strings.                                                      *)
(***************************************************************************)
UpperLetters == <<"A","B","C","D","E","F","G","H","I","J","K","L","M",
                  "N","O","P","Q","R","S","T","U","V","W","X","Y","Z">>
LowerLetters == <<"a","b","c","d","e","f","g","h","i","j","k","l","m",
                  "n","o","p","q","r","s","t","u","v","w","x","y","z">>

IsLetter(c) ==
    \E i \in 1..Len(UpperLetters) : c = UpperLetters[i] \/ c = LowerLetters[i]

\* str.lower() on one character
LowerChar(c) ==
    IF \E i \in 1..Len(UpperLetters) : UpperLetters[i] = c
    THEN LowerLetters[CHOOSE i \in 1..Len(UpperLetters) : UpperLetters[i] = c]
    ELSE c

\* str.lower()
Lower(s) == [i \in 1..Len(s) |-> LowerChar(s[i])]

\* str.startswith(p)
StartsWith(s, p) == Len(s) >= Len(p) /\ SubSeq(s, 1, Len(p)) = p

\* str.endswith(p)
EndsWith(s, p) == Len(s) >= Len(p) /\ SubSeq(s, Len(s) - Len(p) + 1, Len(s)) = p

DataImagePrefix == <<"d","a","t","a",":","i","m","a","g","e">>
SvgSuffix == <<".","s","v","g">>
SchemeSep == <<":","/","/">>

(***************************************************************************)
(* urllib.parse.urljoin(base, ref) for the reference shapes of RefSet: a   *)
(* reference with a scheme is returned as it is, a reference that starts   *)
(* with "/" replaces the path of base, any other reference replaces the    *)
(* last path segment of base.                                              *)
(***************************************************************************)
HasScheme(ref) ==
    \E i \in 2..Len(ref) : ref[i] = ":" /\ \A j \in 1..(i - 1) : IsLetter(ref[j])

\* index of the last character of scheme://netloc in an absolute URL
OriginEnd(base) ==
    LET sep == CHOOSE i \in 1..(Len(base) - 2) : SubSeq(base, i, i + 2) = SchemeSep
        slashes == {k \in (sep + 3)..Len(base) : base[k] = "/"}
    IN  IF slashes = {} THEN Len(base)
        ELSE (CHOOSE k \in slashes : \A m \in slashes : k <= m) - 1

\* index of the last "/" of the path of base, or 0 when base has no path
LastSlash(base) ==
    LET slashes == {k \in (OriginEnd(base) + 1)..Len(base) : base[k] = "/"}
    IN  IF slashes = {} THEN 0
        ELSE CHOOSE k \in slashes : \A m \in slashes : k >= m

urljoin(base, ref) ==
    IF HasScheme(ref) THEN ref
    ELSE IF StartsWith(ref, <<"/">>) THEN SubSeq(base, 1, OriginEnd(base)) \o ref
    ELSE IF LastSlash(base) = 0 THEN SubSeq(base, 1, OriginEnd(base)) \o <<"/">> \o ref
    ELSE SubSeq(base, 1, LastSlash(base)) \o ref

(***************************************************************************)
(* HTML documents as BeautifulSoup sees them: a sequence of top-level      *)
(* elements; a <figure> holds <img> children.  attrs maps the attribute    *)
(* names an element carries to their values.                               *)
(***************************************************************************)
None == <<>>
Some(v) == <<v>>

\* Tag.get(name): the attribute's value, or None
Get(node, name) ==
    IF name \in DOMAIN node.attrs THEN Some(node.attrs[name]) ELSE None

\* Python truthiness of an attribute value: neither None nor ""
Truthy(opt) == opt # None /\ opt[1] # <<>>

Meta(attrs) == [tag |-> "meta", attrs |-> attrs, children |-> <<>>]
Img(attrs) == [tag |-> "img", attrs |-> attrs, children |-> <<>>]
Figure(children) == [tag |-> "figure", attrs |-> <<>>, children |-> children]

OgProperty == <<"o","g",":","i","m","a","g","e">>

\* soup.find_all(tag) over a sequence of elements, in document order
RECURSIVE FindAll(_, _)
FindAll(nodes, tag) ==
    IF nodes = <<>> THEN <<>>
    ELSE (IF Head(nodes).tag = tag THEN <<Head(nodes)>> ELSE <<>>)
         \o FindAll(Head(nodes).children, tag)
         \o FindAll(Tail(nodes), tag)

\* soup.find("meta", property="og:image"): the first such element, or None
FindOg(doc) ==
    LET metas == SelectSeq(FindAll(doc, "meta"),
                           LAMBDA m : Get(m, "property") = Some(OgProperty))
    IN  IF metas = <<>> THEN None ELSE Some(Head(metas))

\* fig.find("img"): the first <img> inside the figure, or None
FindImg(fig) ==
    LET imgs == FindAll(fig.children, "img")
    IN  IF imgs = <<>> THEN None ELSE Some(Head(imgs))

\* lines 71-73: the og:image content, when present and non-empty
OgUrls(article_url, doc) ==
    LET og == FindOg(doc)
    IN  IF og # None /\ Truthy(Get(og[1], "content"))
        THEN <<urljoin(article_url, og[1].attrs["content"])>>
        ELSE <<>>

\* lines 75-78: the src of the first <img> of each <figure>
RECURSIVE FigureUrlsOf(_, _)
FigureUrlsOf(article_url, figs) ==
    IF figs = <<>> THEN <<>>
    ELSE LET img == FindImg(Head(figs))
         IN  (IF img # None /\ Truthy(Get(img[1], "src"))
              THEN <<urljoin(article_url, img[1].attrs["src"])>>
              ELSE <<>>)
             \o FigureUrlsOf(article_url, Tail(figs))

FigureUrls(article_url, doc) == FigureUrlsOf(article_url, FindAll(doc, "figure"))

\* line 81: img.get("src") or img.get("data-src")
SrcOrDataSrc(img) ==
    IF Truthy(Get(img, "src")) THEN Get(img, "src") ELSE Get(img, "data-src")

\* lines 80-83: src or data-src of every <img>
RECURSIVE ImgUrlsOf(_, _)
ImgUrlsOf(article_url, imgs) ==
    IF imgs = <<>> THEN <<>>
    ELSE (IF Truthy(SrcOrDataSrc(Head(imgs)))
          THEN <<urljoin(article_url, SrcOrDataSrc(Head(imgs))[1])>>
          ELSE <<>>)
         \o ImgUrlsOf(article_url, Tail(imgs))

ImgUrls(article_url, doc) == ImgUrlsOf(article_url, FindAll(doc, "img"))

\* list(dict.fromkeys(urls)): keeps the first occurrence of each key
RECURSIVE DedupFrom(_, _)
DedupFrom(urls, seen) ==
    IF urls = <<>> THEN <<>>
    ELSE IF Head(urls) \in seen THEN DedupFrom(Tail(urls), seen)
    ELSE <<Head(urls)>> \o DedupFrom(Tail(urls), seen \cup {Head(urls)})

\* a deduplication that keeps the last occurrence of each key instead
RECURSIVE DedupKeepLast(_)
DedupKeepLast(urls) ==
    IF urls = <<>> THEN <<>>
    ELSE IF \E i \in 2..Len(urls) : urls[i] = Head(urls)
         THEN DedupKeepLast(Tail(urls))
         ELSE <<Head(urls)>> \o DedupKeepLast(Tail(urls))

DictFromKeys(urls) == DedupFrom(urls, {})

\* extract_image_urls applied to the parsed page
extract_image_urls(article_url, doc) ==
    DictFromKeys(OgUrls(article_url, doc)
                 \o FigureUrls(article_url, doc)
                 \o ImgUrls(article_url, doc))

(***************************************************************************)
(* Image validation.  An HTTP response for an image URL is a network       *)
(* error, bytes that do not decode, or an image of w x h pixels; from      *)
(* names the URL (or payload) the bytes came from and sizes gives the      *)
(* number of bytes of its JPEG encoding at each quality.                   *)
(***************************************************************************)
Qualities == {85, 80, 75, 70, 65, 60}
AllQualities == Qualities \cup {CdnQuality}

NoSizes == [q \in AllQualities |-> 0]

NetworkError == [kind |-> "error", w |-> 0, h |-> 0, from |-> <<>>, sizes |-> NoSizes]
Undecodable(url) ==
    [kind |-> "garbage", w |-> 0, h |-> 0, from |-> url, sizes |-> NoSizes]
Picture(url, w, h, sizes) ==
    [kind |-> "image", w |-> w, h |-> h, from |-> url, sizes |-> sizes]

\* line 90 (main.py lines 66-70): rejected before any request is made
PreRejectedCaseSensitive(image_url) ==
    StartsWith(image_url, DataImagePrefix) \/ EndsWith(image_url, SvgSuffix)

PreRejected(image_url) ==
    StartsWith(image_url, DataImagePrefix) \/ EndsWith(Lower(image_url), SvgSuffix)

\* line 100: w / h is Python's correctly rounded quotient of two integers, so
\* for pixel sizes it compares with 0.8 and 2.2 as the exact fraction does
AcceptsStrictRatio(w, h) ==
    /\ w >= MIN_WIDTH
    /\ h >= MIN_HEIGHT
    /\ MinRatioNum * h < RatioDen * w
    /\ RatioDen * w < MaxRatioNum * h

Accepts(w, h) ==
    /\ w >= MIN_WIDTH
    /\ h >= MIN_HEIGHT
    /\ MinRatioNum * h <= RatioDen * w
    /\ RatioDen * w <= MaxRatioNum * h

\* lines 94-101, the body of the try: raised is set when requests.get,
\* Image.open or the division by h = 0 raises
TryBody(resp) ==
    IF resp.kind # "image" \/ resp.h = 0
    THEN [raised |-> TRUE, img |-> None]
    ELSE IF Accepts(resp.w, resp.h)
         THEN [raised |-> FALSE, img |-> Some(resp)]
         ELSE [raised |-> FALSE, img |-> None]

Propagate(outcome) == outcome

\* lines 102-103: except Exception: return None
ExceptReturnNone(outcome) ==
    IF outcome.raised THEN [raised |-> FALSE, img |-> None] ELSE outcome

\* fetch_and_validate_image, given the response the request would get
fetch_and_validate_image(image_url, resp) ==
    IF PreRejected(image_url)
    THEN [raised |-> FALSE, img |-> None]
    ELSE ExceptReturnNone(TryBody(resp))

(***************************************************************************)
(* Compression: compress_image, lines 109-127.                             *)
(***************************************************************************)
EmptyBuffer == [quality |-> 0, size |-> 0, from |-> <<>>, w |-> 0, h |-> 0]

\* img.save(buffer, format="JPEG", quality=quality) into the truncated buffer
Encode(img, quality) ==
    [quality |-> quality, size |-> img.sizes[quality], from |-> img.from,
     w |-> img.w, h |-> img.h]

\* line 118-120: size_kb = buffer.tell() / 1024; size_kb <= MAX_FILE_SIZE_KB
FitsLimit(buffer) == buffer.size <= MAX_FILE_SIZE_KB * BytesPerKB

NextQualitySkipping(quality) == quality - 2 * QualityStep

\* line 124
NextQuality(quality) == quality - QualityStep

\* the while loop from `quality`, with `buffer` and the number of encodings so far
RECURSIVE CompressLoop(_, _, _, _)
CompressLoop(img, quality, buffer, encodings) ==
    IF quality >= FloorQuality
    THEN LET encoded == Encode(img, quality)
         IN  IF FitsLimit(encoded)
             THEN [buffer |-> encoded, encodings |-> encodings + 1]
             ELSE CompressLoop(img, NextQuality(quality), encoded, encodings + 1)
    ELSE [buffer |-> buffer, encodings |-> encodings]

compress_image(img) == CompressLoop(img, StartQuality, EmptyBuffer, 0)

(***************************************************************************)
(* Storage.  The process environment maps the variables that are set to    *)
(* their values.                                                           *)
(***************************************************************************)
EnvRequired == {"AWS_REGION", "AWS_ACCESS_KEY_ID", "AWS_SECRET_ACCESS_KEY"}

\* get_s3_client, lines 50-59: os.environ[...] raises KeyError for a variable
\* that is not set, which becomes HTTPException(500)
get_s3_client(environ) ==
    IF EnvRequired \subseteq DOMAIN environ
    THEN [raised |-> FALSE, client |-> Some([region |-> environ["AWS_REGION"]])]
    ELSE [raised |-> TRUE, client |-> None]

\* line 61: os.environ.get("AWS_S3_BUCKET")
BUCKET_NAME(environ) ==
    IF "AWS_S3_BUCKET" \in DOMAIN environ THEN Some(environ["AWS_S3_BUCKET"]) ELSE None

\* line 161
ArticleKey(idx) == [folder |-> S3_FOLDER_ARTICLE, file |-> <<"article_", idx + 1, "_hero.jpg">>]

\* lines 196-197
GeminiKey(hex) == [folder |-> S3_FOLDER_GEMINI, file |-> <<hex, ".jpg">>]

\* line 142: the URL upload_to_s3 returns
S3Url(s3, bucket, key) ==
    [bucket |-> bucket, region |-> UrlRegionLiteral, key |-> key]

\* main.py line 125
PublicId(idx, img_idx) == <<"article_", idx + 1, "_img_", img_idx + 1>>

\* main.py lines 98-106: the secure URL of the asset stored under public_id
CloudinaryUrl(public_id) == [folder |-> CDN_FOLDER, public_id |-> public_id]

(***************************************************************************)
(* Inputs.                                                                 *)
(***************************************************************************)
UrlA == <<"h","t","t","p","s",":","/","/","a","/","x">>
UrlB == <<"h","t","t","p","s",":","/","/","b","/","p","/","y">>
ArticleUrlSet == {UrlA, UrlB}

Ref1 == <<"/","1",".","j","p","g">>
Ref1Abs == <<"h","t","t","p","s",":","/","/","a","/","1",".","j","p","g">>
Ref2Rel == <<"2",".","j","p","g">>
Ref3 == <<"/","3",".","j","p","g">>
RefSvg == <<"/","v",".","S","V","G">>
RefSvgLower == <<"/","w",".","s","v","g">>
RefData == <<"d","a","t","a",":","i","m","a","g","e","/","p">>
OtherProperty == <<"o","g",":","t">>

MetaOg1 == Meta(("property" :> OgProperty) @@ ("content" :> Ref1))
MetaOgEmpty == Meta(("property" :> OgProperty) @@ ("content" :> <<>>))
MetaOther == Meta(("property" :> OtherProperty) @@ ("content" :> Ref3))
MetaOgData == Meta(("property" :> OgProperty) @@ ("content" :> RefData))
ImgSrc(ref) == Img("src" :> ref)
ImgDataSrc(ref) == Img("data-src" :> ref)
ImgBoth(src, datasrc) == Img(("src" :> src) @@ ("data-src" :> datasrc))
ImgBare == Img(<<>>)

NodeSet ==
    { MetaOg1, MetaOgEmpty, MetaOther,
      Figure(<<ImgSrc(Ref2Rel), ImgSrc(Ref3)>>),
      Figure(<<ImgDataSrc(Ref3), ImgSrc(Ref1)>>),
      ImgSrc(Ref1Abs),
      ImgBoth(<<>>, Ref2Rel),
      ImgBoth(Ref3, Ref1),
      ImgBare }

SeqsUpTo(S, n) == UNION {[1..k -> S] : k \in 0..n}

\* the documents extract_image_urls is checked on
Docs == SeqsUpTo(NodeSet, MaxNodes)

\* the pages the article URLs may serve while a request is handled
Pages ==
    { <<>>,
      <<MetaOg1, ImgSrc(Ref1Abs), ImgBoth(<<>>, Ref2Rel)>>,
      <<MetaOgData, Figure(<<ImgSrc(RefSvg)>>), ImgSrc(RefSvgLower), ImgDataSrc(Ref3)>> }

PageError == [kind |-> "error", doc |-> <<>>]
PageResponses == {PageError} \cup {[kind |-> "html", doc |-> d] : d \in Pages}

Widths == {599, 600, 660, 661}
Heights == {0, 299, 300, 750, 751}

LimitBytes == MAX_FILE_SIZE_KB * BytesPerKB
SizeSet == {LimitBytes - 1, LimitBytes, LimitBytes + 1}

FitsAt70 == [q \in AllQualities |-> IF q <= 70 THEN LimitBytes - 1 ELSE LimitBytes + 1]
NeverFits == [q \in AllQualities |-> LimitBytes + 1]

\* the responses fetch_and_validate_image is checked on
ImageResponses(url) ==
    {NetworkError, Undecodable(url)}
    \cup {Picture(url, w, h, FitsAt70) : w \in Widths, h \in Heights}

\* the responses an image URL may give while a request is handled
ServedImages(url) ==
    { NetworkError, Undecodable(url),
      Picture(url, 1200, 800, FitsAt70),
      Picture(url, 4000, 3000, NeverFits),
      Picture(url, 599, 400, FitsAt70) }

\* the candidate URLs fetch_and_validate_image is checked on
CandidateUrlSet ==
    {urljoin(UrlA, r) : r \in {Ref1, Ref2Rel, RefSvg, RefSvgLower, RefData}}
    \cup {urljoin(UrlA, <<"/","v",".","s","v","g","z">>),
          urljoin(UrlA, <<"/","d","a","t","a",":","i","m","a","g","e">>)}

\* every assignment of sizes to the qualities compress_image may try
AllSizeProfiles ==
    {[q \in AllQualities |-> IF q \in Qualities THEN f[q] ELSE LimitBytes + 1] :
        f \in [Qualities -> SizeSet]}

Regions == {"us-east-1", "eu-west-1"}
EnvNames == EnvRequired \cup {"AWS_S3_BUCKET"}
EnvValues(name) ==
    IF name = "AWS_REGION" THEN Regions
    ELSE IF name = "AWS_S3_BUCKET" THEN {"bkt"}
    ELSE {"key"}

\* the environments of the object-storage variant: any subset of the variables set
S3Environs ==
    UNION {{e \in [S -> Regions \cup {"bkt", "key"}] : \A n \in S : e[n] \in EnvValues(n)} :
             S \in SUBSET EnvNames}

\* main.py lines 26-30 read the three CLOUDINARY_ variables at import, so a
\* process that serves requests has them all
CdnEnviron ==
    ("CLOUDINARY_CLOUD_NAME" :> "key") @@ ("CLOUDINARY_API_KEY" :> "key")
    @@ ("CLOUDINARY_API_SECRET" :> "key")

\* base64 payloads as their comma-separated segments
B64Png == <<"p","n","g">>
B64Junk == <<"?">>
B64Header == <<"d","a","t","a",":","i","m","a","g","e","/","p","n","g",";","b","a","s","e","6","4">>
B64Set == {<<B64Png>>, <<B64Header, B64Png>>, <<B64Junk>>, <<B64Header, B64Junk>>}
UuidHexSet == {"hex1", "hex2"}

\* lines 188-189: if "," in base64_str: base64_str = base64_str.split(",")[1]
StripPrefix(segments) == IF Len(segments) > 1 THEN segments[2] ELSE segments[1]

\* lines 191-192: base64.b64decode and Image.open(...).convert("RGB")
DecodeBase64Image(text) ==
    IF text = B64Png
    THEN [raised |-> FALSE,
          img |-> Some(Picture(text, 64, 64, [q \in AllQualities |-> LimitBytes]))]
    ELSE [raised |-> TRUE, img |-> None]

(***************************************************************************)
(* State.                                                                  *)
(***************************************************************************)
VARIABLES
    variant,         \* "cdn" (main.py) or "s3" (api/index.py)
    environ,         \* os.environ
    endpoint,        \* the route of the request being handled
    payload,         \* articleUrls, or the images' base64 strings
    pc,              \* position in the handler
    s3,              \* the client get_s3_client returned, or None
    idx,             \* index of the article (image) being processed, from 0
    doc,             \* the page fetched for the current article
    image_urls,      \* its candidate URLs
    pos,             \* index of the candidate being tried, from 0
    resp,            \* the response to the last image request, or None
    img,             \* the image fetch_and_validate_image returned, or None
    compressed,      \* what compress_image returned, or None
    article_images,  \* URLs collected for the current article
    results,         \* entries collected for the response
    fetched,         \* the candidates tried for the current article
    uploaded,        \* the last object stored for the current article, or None
    net,             \* network calls made while handling the request
    status,          \* HTTP status of the response, 0 while handling
    failure,         \* what raised, when the request failed
    response         \* the response body, or None

vars == <<variant, environ, endpoint, payload, pc, s3, idx, doc, image_urls, pos,
          resp, img, compressed, article_images, results, fetched, uploaded, net,
          status, failure, response>>

FetchRoute == "/fetch-article-images"
GeminiRoute == "/upload-gemini-images"

NoCalls == [page |-> 0, image |-> 0, upload |-> 0]

Idle ==
    /\ idx = 0
    /\ pos = 0
    /\ compressed = None
    /\ article_images = <<>>
    /\ results = <<>>
    /\ fetched = <<>>
    /\ uploaded = None
    /\ net = NoCalls
    /\ status = 0
    /\ failure = "none"
    /\ response = None

\* a request arrives at one of the two applications
InitRequest ==
    /\ pc = "start"
    /\ \/ /\ variant = "cdn"
          /\ environ = CdnEnviron
          /\ endpoint = FetchRoute
          /\ payload \in SeqsUpTo(ArticleUrlSet, MaxArticles)
       \/ /\ variant = "s3"
          /\ environ \in S3Environs
          /\ \/ /\ endpoint = FetchRoute
                /\ payload \in SeqsUpTo(ArticleUrlSet, MaxArticles)
             \/ /\ endpoint = GeminiRoute
                /\ payload \in SeqsUpTo(B64Set, MaxImages)
    /\ s3 = None
    /\ doc = <<>>
    /\ image_urls = <<>>
    /\ resp = None
    /\ img = None
    /\ Idle

\* extract_image_urls is called on the page of an article
InitExtract ==
    /\ pc = "call_extract"
    /\ variant \in {"cdn", "s3"}
    /\ environ = <<>>
    /\ endpoint = "extract_image_urls"
    /\ payload \in {<<u>> : u \in ArticleUrlSet}
    /\ doc \in Docs
    /\ s3 = None
    /\ image_urls = <<>>
    /\ resp = None
    /\ img = None
    /\ Idle

\* fetch_and_validate_image is called on a candidate URL
InitValidate ==
    /\ pc = "call_validate"
    /\ variant \in {"cdn", "s3"}
    /\ environ = <<>>
    /\ endpoint = "fetch_and_validate_image"
    /\ payload = <<>>
    /\ doc = <<>>
    /\ s3 = None
    /\ \E u \in CandidateUrlSet :
          /\ image_urls = <<u>>
          /\ resp \in {Some(r) : r \in ImageResponses(u)}
    /\ img = None
    /\ Idle

\* compress_image is called on a decoded image
InitCompress ==
    /\ pc = "call_compress"
    /\ variant = "s3"
    /\ environ = <<>>
    /\ endpoint = "compress_image"
    /\ payload = <<>>
    /\ doc = <<>>
    /\ s3 = None
    /\ image_urls = <<>>
    /\ resp = None
    /\ img \in {Some(Picture(Ref1Abs, 1200, 800, sz)) : sz \in AllSizeProfiles}
    /\ Idle

Init == InitRequest \/ InitExtract \/ InitValidate \/ InitCompress

(***************************************************************************)
(* The handlers, one action per step between two network calls.            *)
(***************************************************************************)
\* an exception that reaches FastAPI ends the request with a 500
Fail(why) ==
    /\ pc' = "done"
    /\ status' = 500
    /\ failure' = why

\* line 148 and line 181: s3 = get_s3_client(); main.py builds no client
Begin ==
    /\ pc = "start"
    /\ IF variant = "s3"
       THEN LET r == get_s3_client(environ)
            IN  IF r.raised
                THEN /\ Fail("config")
                     /\ s3' = s3
                ELSE /\ s3' = r.client
                     /\ pc' = IF endpoint = FetchRoute THEN "for_article" ELSE "for_gemini"
                     /\ UNCHANGED <<status, failure>>
       ELSE /\ pc' = "for_article"
            /\ UNCHANGED <<s3, status, failure>>
    /\ UNCHANGED <<variant, environ, endpoint, payload, idx, doc, image_urls, pos, resp,
                   img, compressed, article_images, results, fetched, uploaded, net,
                   response>>

\* lines 151-153 (main.py 115-118): the next article, its page and candidates
ForArticle ==
    /\ pc = "for_article"
    /\ idx < Len(payload)
    /\ \E page \in PageResponses :
          /\ net' = [net EXCEPT !.page = @ + 1]
          /\ IF page.kind = "error"
             THEN /\ Fail("extract")
                  /\ UNCHANGED <<doc, image_urls>>
             ELSE /\ doc' = page.doc
                  /\ image_urls' = extract_image_urls(payload[idx + 1], page.doc)
                  /\ pc' = "for_image_url"
                  /\ UNCHANGED <<status, failure>>
    /\ UNCHANGED <<variant, environ, endpoint, payload, s3, idx, pos, resp, img,
                   compressed, article_images, results, fetched, uploaded, response>>

\* the candidate the loop of line 155 tries at position p
CandidateAt(urls, p) == urls[p + 1]

\* lines 155-158 (main.py 120-123): validate the next candidate
ForImageUrl ==
    /\ pc = "for_image_url"
    /\ pos < Len(image_urls)
    /\ LET image_url == CandidateAt(image_urls, pos)
           requested == ~PreRejected(image_url)
       IN  \E r \in ServedImages(image_url) :
              LET out == fetch_and_validate_image(image_url, r)
              IN  /\ resp' = IF requested THEN Some(r) ELSE None
                  /\ net' = [net EXCEPT !.image = @ + (IF requested THEN 1 ELSE 0)]
                  /\ fetched' = Append(fetched, [url |-> image_url,
                                                 requested |-> requested,
                                                 accepted |-> out.img # None])
                  /\ IF out.raised
                     THEN /\ Fail("validate")
                          /\ UNCHANGED <<img, pos>>
                     ELSE IF out.img = None
                     THEN /\ pos' = pos + 1
                          /\ UNCHANGED <<img, pc, status, failure>>
                     ELSE /\ img' = out.img
                          /\ pc' = "upload"
                          /\ UNCHANGED <<pos, status, failure>>
    /\ UNCHANGED <<variant, environ, endpoint, payload, s3, idx, doc, image_urls,
                   compressed, article_images, results, uploaded, response>>

\* where the candidate loop goes after an upload: api/index.py line 165 breaks
AfterUploadContinue(v) == "for_image_url"

AfterUpload(v) == IF v = "s3" THEN "end_article" ELSE "for_image_url"

\* upload_fileobj with the module's BUCKET_NAME: boto3 rejects Bucket=None
\* before sending anything; a request that is sent may fail
S3UploadOutcomes(bucket) == IF bucket = None THEN {"invalid"} ELSE {"stored", "error"}

\* lines 160-165: compress, upload to the bucket, collect the URL, stop
UploadS3 ==
    /\ pc = "upload"
    /\ variant = "s3"
    /\ LET out == compress_image(img[1])
           key == ArticleKey(idx)
           bucket == BUCKET_NAME(environ)
       IN  /\ compressed' = Some(out)
           /\ \E outcome \in S3UploadOutcomes(bucket) :
                 IF outcome = "stored"
                 THEN /\ net' = [net EXCEPT !.upload = @ + 1]
                      /\ uploaded' = Some([bucket |-> bucket[1], region |-> s3[1].region,
                                           key |-> key, body |-> out.buffer])
                      /\ article_images' =
                            Append(article_images, S3Url(s3[1], bucket[1], key))
                      /\ pc' = AfterUpload(variant)
                      /\ UNCHANGED <<status, failure>>
                 ELSE /\ net' = [net EXCEPT !.upload = @ + (IF outcome = "error" THEN 1 ELSE 0)]
                      /\ Fail("upload")
                      /\ UNCHANGED <<uploaded, article_images>>
    /\ UNCHANGED <<variant, environ, endpoint, payload, s3, idx, doc, image_urls, pos,
                   resp, img, results, fetched, response>>

\* main.py lines 125-127 and 93-106: encode at quality 90, upload, go on
UploadCloudinary ==
    /\ pc = "upload"
    /\ variant = "cdn"
    /\ LET body == Encode(img[1], CdnQuality)
           public_id == PublicId(idx, pos)
       IN  \E outcome \in {"stored", "error"} :
              /\ net' = [net EXCEPT !.upload = @ + 1]
              /\ IF outcome = "stored"
                 THEN /\ uploaded' = Some([bucket |-> CDN_FOLDER, region |-> "cdn",
                                           key |-> public_id, body |-> body])
                      /\ article_images' = Append(article_images, CloudinaryUrl(public_id))
                      /\ pos' = pos + 1
                      /\ pc' = AfterUpload(variant)
                      /\ UNCHANGED <<status, failure>>
                 ELSE /\ Fail("upload")
                      /\ UNCHANGED <<uploaded, article_images, pos>>
    /\ UNCHANGED <<variant, environ, endpoint, payload, s3, idx, doc, image_urls,
                   resp, img, compressed, results, fetched, response>>

\* lines 167-170 (main.py 129-133): the entry of one article
ResultEntry(v, article_url, images) ==
    IF v = "s3"
    THEN [articleUrl |-> article_url, articleImages |-> images]
    ELSE [json |-> [articleImages |-> images]]

\* an append that skips an article URL the results already hold
AppendUnlessSeen(rs, entry) ==
    IF "articleUrl" \in DOMAIN entry
       /\ \E i \in 1..Len(rs) : rs[i].articleUrl = entry.articleUrl
    THEN rs
    ELSE Append(rs, entry)

\* results.append(...)
ResultsAppend(rs, entry) == Append(rs, entry)

\* the candidate loop is over: append the article's entry, go to the next
EndArticle ==
    /\ \/ pc = "for_image_url" /\ pos >= Len(image_urls)
       \/ pc = "end_article"
    /\ results' = ResultsAppend(results,
                                ResultEntry(variant, payload[idx + 1], article_images))
    /\ idx' = idx + 1
    /\ pc' = "for_article"
    /\ doc' = <<>>
    /\ image_urls' = <<>>
    /\ pos' = 0
    /\ resp' = None
    /\ img' = None
    /\ compressed' = None
    /\ article_images' = <<>>
    /\ fetched' = <<>>
    /\ uploaded' = None
    /\ UNCHANGED <<variant, environ, endpoint, payload, s3, net, status, failure, response>>

\* lines 172-175 (main.py 135)
ArticlesBody(v, rs) ==
    IF v = "s3" THEN [count |-> Len(rs), articles |-> rs] ELSE rs

ReturnArticles ==
    /\ pc = "for_article"
    /\ idx >= Len(payload)
    /\ response' = Some(ArticlesBody(variant, results))
    /\ status' = 200
    /\ pc' = "done"
    /\ UNCHANGED <<variant, environ, endpoint, payload, s3, idx, doc, image_urls, pos,
                   resp, img, compressed, article_images, results, fetched, uploaded,
                   net, failure>>

\* lines 184-200: one image of POST /upload-gemini-images
ForGeminiImage ==
    /\ pc = "for_gemini"
    /\ idx < Len(payload)
    /\ LET decoded == DecodeBase64Image(StripPrefix(payload[idx + 1]))
           bucket == BUCKET_NAME(environ)
       IN  IF decoded.raised
           THEN /\ Fail("decode")
                /\ UNCHANGED <<img, compressed, uploaded, results, idx, net>>
           ELSE LET out == compress_image(decoded.img[1])
                IN  /\ img' = decoded.img
                    /\ compressed' = Some(out)
                    /\ \E hex \in UuidHexSet, outcome \in S3UploadOutcomes(bucket) :
                          IF outcome = "stored"
                          THEN /\ net' = [net EXCEPT !.upload = @ + 1]
                               /\ uploaded' = Some([bucket |-> bucket[1],
                                                    region |-> s3[1].region,
                                                    key |-> GeminiKey(hex),
                                                    body |-> out.buffer])
                               /\ results' =
                                     Append(results, S3Url(s3[1], bucket[1], GeminiKey(hex)))
                               /\ idx' = idx + 1
                               /\ UNCHANGED <<pc, status, failure>>
                          ELSE /\ net' = [net EXCEPT
                                            !.upload = @ + (IF outcome = "error" THEN 1 ELSE 0)]
                               /\ Fail("upload")
                               /\ UNCHANGED <<uploaded, results, idx>>
    /\ UNCHANGED <<variant, environ, endpoint, payload, s3, doc, image_urls, pos, resp,
                   article_images, fetched, response>>

\* lines 202-205
ReturnGemini ==
    /\ pc = "for_gemini"
    /\ idx >= Len(payload)
    /\ response' = Some([count |-> Len(results), images |-> results])
    /\ status' = 200
    /\ pc' = "done"
    /\ UNCHANGED <<variant, environ, endpoint, payload, s3, idx, doc, image_urls, pos,
                   resp, img, compressed, article_images, results, fetched, uploaded,
                   net, failure>>

\* the three functions called on their own
CallExtract ==
    /\ pc = "call_extract"
    /\ image_urls' = extract_image_urls(payload[1], doc)
    /\ pc' = "returned"
    /\ UNCHANGED <<variant, environ, endpoint, payload, s3, idx, doc, pos, resp, img,
                   compressed, article_images, results, fetched, uploaded, net, status,
                   failure, response>>

CallValidate ==
    /\ pc = "call_validate"
    /\ LET image_url == image_urls[1]
           requested == ~PreRejected(image_url)
           out == fetch_and_validate_image(image_url, resp[1])
       IN  /\ img' = out.img
           /\ net' = [net EXCEPT !.image = @ + (IF requested THEN 1 ELSE 0)]
           /\ fetched' = <<[url |-> image_url, requested |-> requested,
                            accepted |-> out.img # None]>>
           /\ failure' = IF out.raised THEN "validate" ELSE failure
    /\ pc' = "returned"
    /\ UNCHANGED <<variant, environ, endpoint, payload, s3, idx, doc, image_urls, pos,
                   resp, compressed, article_images, results, uploaded, status, response>>

CallCompress ==
    /\ pc = "call_compress"
    /\ compressed' = Some(compress_image(img[1]))
    /\ pc' = "returned"
    /\ UNCHANGED <<variant, environ, endpoint, payload, s3, idx, doc, image_urls, pos,
                   resp, img, article_images, results, fetched, uploaded, net, status,
                   failure, response>>

Next ==
    \/ CallExtract
    \/ CallValidate
    \/ CallCompress
    \/ Begin
    \/ ForArticle
    \/ ForImageUrl
    \/ UploadS3
    \/ UploadCloudinary
    \/ EndArticle
    \/ ReturnArticles
    \/ ForGeminiImage
    \/ ReturnGemini

Spec == Init /\ [][Next]_vars

(***************************************************************************)
(* Properties.                                                             *)
(***************************************************************************)
HandlingArticles == endpoint = FetchRoute
HandlingGemini == endpoint = GeminiRoute

\* the articleImages list of an entry of the response of either variant
EntryImages(entry) ==
    IF "json" \in DOMAIN entry THEN entry.json.articleImages ELSE entry.articleImages

Last(seq) == seq[Len(seq)]

\* width >= 600, height >= 300 and 0.8 <= width/height <= 2.2, as 4/5 and 11/5
MeetsGeometry(w, h) ==
    /\ w >= 600
    /\ h >= 300
    /\ 4 * h <= 5 * w
    /\ 5 * w <= 11 * h

\* the URL ends in ".svg" in any letter case
EndsInSvgAnyCase(url) ==
    /\ Len(url) >= 4
    /\ url[Len(url) - 3] = "."
    /\ url[Len(url) - 2] \in {"s", "S"}
    /\ url[Len(url) - 1] \in {"v", "V"}
    /\ url[Len(url)] \in {"g", "G"}

StartsWithDataImage(url) ==
    /\ Len(url) >= 10
    /\ [i \in 1..10 |-> url[i]] = <<"d","a","t","a",":","i","m","a","g","e">>

\* C1: every articleImages list of POST /fetch-article-images, while it is
\* built and in the response, has 0 or 1 entries.
C1_AtMostOneImagePerArticle ==
    HandlingArticles =>
        /\ Len(article_images) <= 1
        /\ \A i \in 1..Len(results) : Len(EntryImages(results[i])) <= 1

\* C2: an image is returned by fetch_and_validate_image, compressed, uploaded
\* or listed only if width >= 600, height >= 300 and 0.8 <= width/height <= 2.2;
\* a requested candidate whose response decodes is accepted exactly when that
\* holds (boundaries included), and is rejected when it does not, when the
\* height is 0, or when the response is an error or does not decode.
C2_OnlyValidGeometrySelected ==
    (HandlingArticles \/ endpoint = "fetch_and_validate_image") =>
        /\ img # None => MeetsGeometry(img[1].w, img[1].h)
        /\ compressed # None =>
              MeetsGeometry(compressed[1].buffer.w, compressed[1].buffer.h)
        /\ uploaded # None => MeetsGeometry(uploaded[1].body.w, uploaded[1].body.h)
        /\ article_images # <<>> => uploaded # None
        /\ (fetched # <<>> /\ Last(fetched).requested) =>
              /\ resp # None
              /\ Last(fetched).accepted <=>
                    /\ resp[1].kind = "image"
                    /\ resp[1].h # 0
                    /\ MeetsGeometry(resp[1].w, resp[1].h)
              /\ Last(fetched).accepted => img = resp
              /\ (pc = "returned" /\ ~Last(fetched).accepted) => img = None

C2_BoundaryAccepted ==
    /\ pc = "returned"
    /\ endpoint = "fetch_and_validate_image"
    /\ img # None
    /\ img[1].w = 600
    /\ img[1].h = 750

\* C3: a candidate URL that starts with "data:image" or ends in ".svg" in any
\* letter case is rejected without a request for it being made.
C3_NoFetchForDataOrSvg ==
    /\ \A i \in 1..Len(fetched) :
          (StartsWithDataImage(fetched[i].url) \/ EndsInSvgAnyCase(fetched[i].url)) =>
              /\ ~fetched[i].requested
              /\ ~fetched[i].accepted
    /\ (HandlingArticles /\ fetched # <<>> /\ ~Last(fetched).requested) => resp = None
    /\ (pc = "returned" /\ endpoint = "fetch_and_validate_image") =>
          net.image = Cardinality({i \in 1..Len(fetched) : fetched[i].requested})

C3_UpperCaseSvgSkipped ==
    /\ HandlingArticles
    /\ \E i \in 1..Len(fetched) :
          /\ EndsInSvgAnyCase(fetched[i].url)
          /\ fetched[i].url[Len(fetched[i].url)] = "G"
          /\ ~fetched[i].requested
    /\ \E i \in 1..Len(fetched) : StartsWithDataImage(fetched[i].url)

\* the qualities whose encoding of the image is at most 800 KB
FittingQualities(image) ==
    {q \in {85, 80, 75, 70, 65, 60} : image.sizes[q] <= 800 * 1024}

\* C4: compress_image encodes at 85, 80, 75, 70, 65, 60 in that order, at most
\* 6 times; when some of these qualities gives at most 800 KB the result is the
\* encoding at the highest of them, and otherwise it is the quality-60 encoding.
C4_CompressBestEffort ==
    compressed # None =>
        LET out == compressed[1]
            fits == FittingQualities(img[1])
        IN  /\ out.encodings \in 1..6
            /\ out.buffer.quality = 85 - 5 * (out.encodings - 1)
            /\ out.buffer.size = img[1].sizes[out.buffer.quality]
            /\ out.buffer.from = img[1].from
            /\ IF fits # {}
               THEN /\ out.buffer.size <= 800 * 1024
                    /\ out.buffer.quality \in fits
                    /\ \A q \in fits : q <= out.buffer.quality
               ELSE out.buffer.quality = 60

C4_FitsAfterThreeSteps ==
    /\ pc = "returned"
    /\ endpoint = "compress_image"
    /\ compressed # None
    /\ compressed[1].buffer.quality = 70
    /\ compressed[1].encodings = 4
    /\ img[1].sizes[60] > 800 * 1024

\* C5: in the object-storage variant, a request (here one that names at least
\* one article or image) handled while one of the four storage variables is
\* unset makes no network call and ends with status 500.
C5_MissingConfigFailsBeforeNetwork ==
    (variant = "s3" /\ (HandlingArticles \/ HandlingGemini) /\ payload # <<>>
     /\ ~({"AWS_REGION", "AWS_ACCESS_KEY_ID", "AWS_SECRET_ACCESS_KEY", "AWS_S3_BUCKET"}
            \subseteq DOMAIN environ)) =>
        /\ net = NoCalls
        /\ pc = "done" => status = 500

\* C6: no request fails because of a candidate image: a candidate that is
\* answered by a network error or by bytes that do not decode is rejected and
\* the loop goes on to the next one; an article left without an image gets an
\* entry with an empty list, and the handler goes on to fetch the page of the
\* next article.
C6_CandidateErrorsNeverFail ==
    /\ [](failure # "validate")
    /\ [][(HandlingArticles /\ pc = "for_image_url" /\ pos < Len(image_urls)
           /\ resp' # None /\ resp'[1].kind # "image")
          => (pc' = "for_image_url" /\ pos' = pos + 1 /\ status' = 0
              /\ article_images' = article_images)]_vars
    /\ [][(HandlingArticles /\ pc = "for_image_url" /\ pos >= Len(image_urls)
           /\ article_images = <<>>)
          => (/\ Len(results') = Len(results) + 1
              /\ EntryImages(Last(results')) = <<>>
              /\ idx' = idx + 1
              /\ pc' = "for_article"
              /\ status' = 0)]_vars
    /\ [][(HandlingArticles /\ pc = "for_article" /\ idx < Len(payload))
          => net'.page = net.page + 1]_vars

C6_NetworkErrorSkipped ==
    /\ HandlingArticles
    /\ variant = "s3"
    /\ idx = 1
    /\ EntryImages(results[1]) = <<>>
    /\ pc = "for_image_url"
    /\ pos >= 1
    /\ resp # None
    /\ resp[1].kind = "error"
    /\ status = 0

RECURSIVE TotalImages(_)
TotalImages(entries) ==
    IF entries = <<>> THEN 0
    ELSE Len(EntryImages(Head(entries))) + TotalImages(Tail(entries))

\* C7: in the object-storage variant the articles are handled one by one in
\* request order, one page request and one entry per occurrence of a URL; the
\* images of entry i are those stored under the key of article i, each listed
\* image was uploaded, and a completed response has count = number of
\* articleUrls and entry i carrying articleUrls[i].
C7_OneEntryPerOccurrence ==
    (variant = "s3" /\ HandlingArticles /\ pc # "start") =>
        /\ Len(results) = idx
        /\ idx <= Len(payload)
        /\ \A i \in 1..Len(results) :
              /\ results[i].articleUrl = payload[i]
              /\ \A k \in 1..Len(results[i].articleImages) :
                    results[i].articleImages[k].key.file[2] = i
        /\ net.page \in {idx, idx + 1}
        /\ (pc \in {"for_image_url", "upload", "end_article"}) => net.page = idx + 1
        /\ pc = "for_article" => net.page = idx
        /\ net.upload >= TotalImages(results) + Len(article_images)
        /\ status = 200 =>
              /\ response[1].count = Len(payload)
              /\ Len(response[1].articles) = Len(payload)
              /\ response[1].articles = results
              /\ net.page = Len(payload)
              /\ net.upload = TotalImages(results)

C7_DuplicateUrlBothProcessed ==
    /\ variant = "s3"
    /\ HandlingArticles
    /\ status = 200
    /\ payload = <<UrlA, UrlA>>
    /\ Len(response[1].articles[1].articleImages) = 1
    /\ response[1].articles[2].articleImages = <<>>

\* C8: every URL returned by the object-storage upload names the bucket, the
\* key and the region the object was stored in.
C8_UrlNamesUploadRegion ==
    (variant = "s3" /\ uploaded # None) =>
        LET url == IF HandlingArticles THEN Last(article_images) ELSE Last(results)
        IN  /\ url.bucket = uploaded[1].bucket
            /\ url.key = uploaded[1].key
            /\ url.region = uploaded[1].region

\* C9: in the object-storage variant the candidates of an article are tried
\* one at a time in extraction order; the first one that validates is the one
\* uploaded, and no candidate is tried after it.
C9_FirstValidCandidateOnly ==
    (variant = "s3" /\ HandlingArticles) =>
        /\ Len(fetched) <= Len(image_urls)
        /\ \A i \in 1..Len(fetched) :
              /\ fetched[i].url = image_urls[i]
              /\ fetched[i].accepted => i = Len(fetched)
        /\ pc = "for_image_url" => (Len(fetched) = pos /\ uploaded = None)
        /\ pc \in {"upload", "end_article"} =>
              /\ Len(fetched) = pos + 1
              /\ Last(fetched).accepted
              /\ img # None /\ img[1].from = image_urls[pos + 1]
        /\ uploaded # None =>
              /\ pc = "end_article"
              /\ uploaded[1].body.from = Last(fetched).url
              /\ Len(article_images) = 1

C9_AcceptedBeforeListEnds ==
    /\ variant = "s3"
    /\ HandlingArticles
    /\ pc = "end_article"
    /\ Len(fetched) = 1
    /\ Len(image_urls) = 2
    /\ uploaded # None

\* the attribute values an element offers to each of the three passes
TruthyAttr(node, name) == name \in DOMAIN node.attrs /\ node.attrs[name] # <<>>

C10_Expected(url, d) ==
    LET ogs == {i \in 1..Len(d) : d[i].tag = "meta" /\ TruthyAttr(d[i], "property")
                                  /\ d[i].attrs["property"] = OgProperty}
        firstOg == IF ogs = {} THEN 0 ELSE CHOOSE i \in ogs : \A j \in ogs : i <= j
        fromOg == IF firstOg # 0 /\ TruthyAttr(d[firstOg], "content")
                  THEN {urljoin(url, d[firstOg].attrs["content"])} ELSE {}
        fromFigures == {urljoin(url, d[i].children[1].attrs["src"]) :
                          i \in {n \in 1..Len(d) : /\ d[n].tag = "figure"
                                                   /\ d[n].children # <<>>
                                                   /\ TruthyAttr(d[n].children[1], "src")}}
        imgs == {d[i] : i \in {n \in 1..Len(d) : d[n].tag = "img"}}
                \cup UNION {{d[i].children[k] : k \in 1..Len(d[i].children)} :
                              i \in {n \in 1..Len(d) : d[n].tag = "figure"}}
        fromImgs == {urljoin(url, m.attrs["src"]) : m \in {x \in imgs : TruthyAttr(x, "src")}}
                    \cup {urljoin(url, m.attrs["data-src"]) :
                            m \in {x \in imgs : ~TruthyAttr(x, "src")
                                                /\ TruthyAttr(x, "data-src")}}
    IN  [og |-> fromOg, figures |-> fromFigures, imgs |-> fromImgs]

\* position of the first occurrence of u in seq
FirstIndex(seq, u) == CHOOSE i \in 1..Len(seq) : seq[i] = u /\ \A j \in 1..(i - 1) : seq[j] # u

\* C10: extract_image_urls returns, without repetition, exactly the URLs of
\* the og:image content, of the first <img> src of each <figure> and of the
\* src or data-src of every <img>, in the order of their first occurrence in
\* that concatenation.
C10_ExtractOrderedSet ==
    (pc = "returned" /\ endpoint = "extract_image_urls") =>
        LET url == payload[1]
            want == C10_Expected(url, doc)
            cat == OgUrls(url, doc) \o FigureUrls(url, doc) \o ImgUrls(url, doc)
            got == image_urls
        IN  /\ \A i, j \in 1..Len(got) : got[i] = got[j] => i = j
            /\ {got[i] : i \in 1..Len(got)} = want.og \cup want.figures \cup want.imgs
            /\ {cat[i] : i \in 1..Len(cat)} = {got[i] : i \in 1..Len(got)}
            /\ \A i, j \in 1..Len(got) :
                  i < j => FirstIndex(cat, got[i]) < FirstIndex(cat, got[j])
            /\ want.og # {} => got[1] \in want.og
            /\ \A i \in 1..Len(got) :
                  (got[i] \notin want.og \cup want.figures) =>
                      \A j \in 1..Len(got) :
                          got[j] \in want.og \cup want.figures => j < i

C10_DuplicatesCollapsed ==
    /\ pc = "returned"
    /\ endpoint = "extract_image_urls"
    /\ Len(image_urls) = 2
    /\ Len(doc) = 3
    /\ doc[1].tag = "img"
    /\ doc[2].tag = "figure"
    /\ doc[3].tag = "meta"
    /\ Len(OgUrls(payload[1], doc) \o FigureUrls(payload[1], doc)
           \o ImgUrls(payload[1], doc)) = 4

====
